---- MODULE Spec2Model ----
(***************************************************************************)
(* Model of the Drift liquidation calculator (src/liqcalc.py, src/app.py). *)
(*                                                                         *)
(* The program is a Streamlit script: every interaction of the operator   *)
(* re-executes liqcalc() from top to bottom against st.session_state.     *)
(* One action of the model is one interaction followed by the whole       *)
(* render pass it triggers.                                               *)
(*                                                                         *)
(* Python floats are IEEE-754 binary64.  They are modelled exactly: a     *)
(* float is sign * mantissa * 2^exponent, the mantissa an arbitrary       *)
(* precision natural of at most 53 bits, and every operation rounds to    *)
(* nearest, ties to even, as the hardware does.                           *)
(***************************************************************************)
EXTENDS Integers, Sequences, FiniteSets, TLC

----------------------------------------------------------------------------
(* Arbitrary precision naturals: little-endian sequences of limbs, base   *)
(* 2^15, without leading zero limbs; <<>> is 0.  (TLC integers are 32 bit.)*)

LimbBits == 15
Base == 2^LimbBits

RECURSIVE BNorm(_)
BNorm(a) ==
    IF a = <<>> THEN <<>>
    ELSE IF a[Len(a)] = 0 THEN BNorm(SubSeq(a, 1, Len(a) - 1)) ELSE a

RECURSIVE BOfInt(_)
BOfInt(n) == IF n = 0 THEN <<>> ELSE <<n % Base>> \o BOfInt(n \div Base)

RECURSIVE BToInt(_)
BToInt(a) == IF a = <<>> THEN 0 ELSE a[1] + Base * BToInt(Tail(a))

RECURSIVE BAddC(_, _, _)
BAddC(a, b, c) ==
    IF a = <<>> /\ b = <<>> THEN (IF c = 0 THEN <<>> ELSE <<c>>)
    ELSE LET x == IF a = <<>> THEN 0 ELSE a[1]
             y == IF b = <<>> THEN 0 ELSE b[1]
             s == x + y + c
         IN  <<s % Base>> \o BAddC(IF a = <<>> THEN a ELSE Tail(a),
                                   IF b = <<>> THEN b ELSE Tail(b),
                                   s \div Base)

BAdd(a, b) == BAddC(a, b, 0)

\* a - b - c for a >= b + c, not normalised
RECURSIVE BSubC(_, _, _)
BSubC(a, b, c) ==
    IF a = <<>> THEN <<>>
    ELSE LET y == IF b = <<>> THEN 0 ELSE b[1]
             d == a[1] - y - c
         IN  <<d % Base>> \o BSubC(Tail(a), IF b = <<>> THEN b ELSE Tail(b),
                                   IF d < 0 THEN 1 ELSE 0)

BSub(a, b) == BNorm(BSubC(a, b, 0))

\* compares the limbs i, i-1, ..., 1 of two naturals of equal length
RECURSIVE BCmpFrom(_, _, _)
BCmpFrom(a, b, i) ==
    IF i = 0 THEN 0
    ELSE IF a[i] < b[i] THEN -1
    ELSE IF a[i] > b[i] THEN 1
    ELSE BCmpFrom(a, b, i - 1)

BCmp(a, b) ==
    IF Len(a) < Len(b) THEN -1
    ELSE IF Len(a) > Len(b) THEN 1
    ELSE BCmpFrom(a, b, Len(a))

\* a * d + c for 0 <= d, c < Base
RECURSIVE BMulSmall(_, _, _)
BMulSmall(a, d, c) ==
    IF a = <<>> THEN (IF c = 0 THEN <<>> ELSE <<c>>)
    ELSE LET s == a[1] * d + c
         IN  <<s % Base>> \o BMulSmall(Tail(a), d, s \div Base)

RECURSIVE BMul(_, _)
BMul(a, b) ==
    IF a = <<>> \/ b = <<>> THEN <<>>
    ELSE LET rest == BMul(a, Tail(b))
         IN  BAdd(BNorm(BMulSmall(a, b[1], 0)),
                  IF rest = <<>> THEN <<>> ELSE <<0>> \o rest)

\* <<quotient limbs i..1 (little-endian), remainder>> of (r * Base^i + a[1..i]) by d
RECURSIVE BDivSmallFrom(_, _, _, _)
BDivSmallFrom(a, d, i, r) ==
    IF i = 0 THEN [q |-> <<>>, r |-> r]
    ELSE LET cur  == r * Base + a[i]
             rest == BDivSmallFrom(a, d, i - 1, cur % d)
         IN  [q |-> Append(rest.q, cur \div d), r |-> rest.r]

\* quotient and remainder of a by d, 0 < d <= Base
BDivSmall(a, d) ==
    LET res == BDivSmallFrom(a, d, Len(a), 0)
    IN  [q |-> BNorm(res.q), r |-> res.r]

Zeros(n) == [i \in 1..n |-> 0]

BShl(a, k) ==
    IF a = <<>> THEN <<>>
    ELSE Zeros(k \div LimbBits) \o BMulSmall(a, 2^(k % LimbBits), 0)

BShr(a, k) ==
    LET w == k \div LimbBits
    IN  IF w >= Len(a) THEN <<>>
        ELSE BDivSmall(SubSeq(a, w + 1, Len(a)), 2^(k % LimbBits)).q

RECURSIVE BitLenSmall(_)
BitLenSmall(n) == IF n = 0 THEN 0 ELSE 1 + BitLenSmall(n \div 2)

BBitLen(a) ==
    IF a = <<>> THEN 0 ELSE LimbBits * (Len(a) - 1) + BitLenSmall(a[Len(a)])

BBit(a, i) ==
    LET w == i \div LimbBits + 1
    IN  IF i < 0 \/ w > Len(a) THEN 0 ELSE (a[w] \div 2^(i % LimbBits)) % 2

\* whether a mod 2^k # 0
BLowNonzero(a, k) ==
    LET w == k \div LimbBits
    IN  \/ \E j \in 1..w : j <= Len(a) /\ a[j] # 0
        \/ w + 1 <= Len(a) /\ a[w + 1] % 2^(k % LimbBits) # 0

RECURSIVE TrailingZerosSmall(_)
TrailingZerosSmall(n) == IF n % 2 = 1 THEN 0 ELSE 1 + TrailingZerosSmall(n \div 2)

\* number of trailing zero bits of a # 0
RECURSIVE BTrailingZeros(_)
BTrailingZeros(a) ==
    IF a[1] = 0 THEN LimbBits + BTrailingZeros(Tail(a))
    ELSE TrailingZerosSmall(a[1])

\* the largest q <= qh with q * d <= r
RECURSIVE BDivFix(_, _, _)
BDivFix(r, d, qh) ==
    IF BCmp(BNorm(BMulSmall(d, qh, 0)), r) > 0 THEN BDivFix(r, d, qh - 1) ELSE qh

\* schoolbook long division, one quotient limb per step: the limbs i..1 of
\* a are still to be brought down, q and r are the quotient and remainder of
\* the limbs above them by d; the top limb of d is >= Base/2.  The operands
\* were shifted left by sh bits, which the remainder is shifted back.
RECURSIVE BDivLoop(_, _, _, _, _, _)
BDivLoop(a, d, i, q, r, sh) ==
    IF i = 0 THEN [q |-> q, r |-> BShr(r, sh)]
    ELSE LET n == Len(d)
             Down(r1, qd) ==
                 BDivLoop(a, d, i - 1, BNorm(<<qd>> \o q),
                          BSub(r1, BNorm(BMulSmall(d, qd, 0))), sh)
             Estimate(r1, t) ==
                 Down(r1, BDivFix(r1, d, IF t \div d[n] > Base - 1 THEN Base - 1
                                         ELSE t \div d[n]))
             Top(r1) ==
                 Estimate(r1, (IF Len(r1) > n THEN r1[n + 1] * Base ELSE 0)
                              + (IF Len(r1) >= n THEN r1[n] ELSE 0))
         IN  Top(BNorm(<<a[i]>> \o r))

BDivLong(a, d, sh) == BDivLoop(a, d, Len(a), <<>>, <<>>, sh)

\* quotient and remainder of a by d # 0
BDivMod(a, d) ==
    IF Len(d) = 1
    THEN [q |-> BDivSmall(a, d[1]).q, r |-> BOfInt(BDivSmall(a, d[1]).r)]
    ELSE BDivLong(BShl(a, LimbBits - BitLenSmall(d[Len(d)])),
                  BShl(d, LimbBits - BitLenSmall(d[Len(d)])),
                  LimbBits - BitLenSmall(d[Len(d)]))

----------------------------------------------------------------------------
(* IEEE-754 binary64 values, [s, m, e] = s * m * 2^e with s in {1, -1},   *)
(* m an odd natural below 2^53 (or <<>> for zero, with s = 1, e = 0).     *)
(* The exponent range is not modelled: no value of the program comes near *)
(* its ends.                                                               *)

MantBits == 53

FZero == [s |-> 1, m |-> <<>>, e |-> 0]

FTrim(s, n, e) ==
    IF n = <<>> THEN FZero
    ELSE [s |-> s, m |-> BShr(n, BTrailingZeros(n)), e |-> e + BTrailingZeros(n)]

\* s * n * 2^e with the low sh >= 1 bits of n rounded away
FRoundTo(s, n, e, sticky, sh) ==
    FTrim(s,
          IF BBit(n, sh - 1) = 1
             /\ (sticky \/ BLowNonzero(n, sh - 1) \/ BBit(n, sh) = 1)
          THEN BAdd(BShr(n, sh), <<1>>) ELSE BShr(n, sh),
          e + sh)

\* the float nearest to s * (n + sticky) * 2^e, ties to even; sticky stands
\* for a discarded fraction 0 < f < 1 below bit 0 of n
FRound(s, n, e, sticky) ==
    IF BBitLen(n) <= MantBits THEN FTrim(s, n, e)
    ELSE FRoundTo(s, n, e, sticky, BBitLen(n) - MantBits)

FOfInt(n) == FRound(IF n < 0 THEN -1 ELSE 1, BOfInt(IF n < 0 THEN -n ELSE n), 0, FALSE)

FNeg(a) == IF a.m = <<>> THEN a ELSE [a EXCEPT !.s = -a.s]

FMul(a, b) ==
    IF a.m = <<>> \/ b.m = <<>> THEN FZero
    ELSE FRound(a.s * b.s, BMul(a.m, b.m), a.e + b.e, FALSE)

\* sa * x * 2^e + sb * y * 2^e
FAddAligned(sa, sb, x, y, e) ==
    IF sa # sb /\ BCmp(x, y) = 0 THEN FZero
    ELSE FRound(IF sa = sb \/ BCmp(x, y) > 0 THEN sa ELSE sb,
                IF sa = sb THEN BAdd(x, y)
                ELSE IF BCmp(x, y) > 0 THEN BSub(x, y) ELSE BSub(y, x),
                e, FALSE)

FAdd(a, b) ==
    IF a.m = <<>> THEN b
    ELSE IF b.m = <<>> THEN a
    ELSE IF a.e < b.e THEN FAddAligned(a.s, b.s, a.m, BShl(b.m, b.e - a.e), a.e)
    ELSE FAddAligned(a.s, b.s, BShl(a.m, a.e - b.e), b.m, b.e)

FSub(a, b) == FAdd(a, FNeg(b))

\* a / b for b # 0 (Python raises ZeroDivisionError for b = 0: the callers decide)
FDivRound(s, res, e) == FRound(s, res.q, e, res.r # <<>>)

\* the quotient of a.m * 2^k by b.m has MantBits + 2 or MantBits + 3 bits
FDivScaled(a, b, k) ==
    FDivRound(a.s * b.s, BDivMod(BShl(a.m, k), b.m), a.e - b.e - k)

FDiv(a, b) ==
    IF a.m = <<>> THEN FZero
    ELSE FDivScaled(a, b, MantBits + 3 + BBitLen(b.m) - BBitLen(a.m))

FIsZero(a) == a.m = <<>>

\* a < b
FLess(a, b) ==
    LET Negative(d) == d.m # <<>> /\ d.s = -1
    IN  Negative(FSub(a, b))   \* the sign of the rounded difference is the exact one

\* int(a): truncation toward zero, as [s, m] with m a natural
FTrunc(a) ==
    LET Signed(mag) == [s |-> IF mag = <<>> THEN 1 ELSE a.s, m |-> mag]
    IN  Signed(IF a.e >= 0 THEN BShl(a.m, a.e) ELSE BShr(a.m, -a.e))

\* int(a) as an integer of the model (|int(a)| < 2^31)
FToInt(a) == LET Value(t) == t.s * BToInt(t.m) IN Value(FTrunc(a))

\* rint(a): the nearest integer, ties to even
FRint(a) == IF a.e >= 0 THEN a ELSE FRoundTo(a.s, a.m, a.e, FALSE, -a.e)

\* a signed integer too wide for the model's 32-bit integers: [s, m], m a natural
FOfWide(w) == FRound(w.s, w.m, 0, FALSE)

F1        == FOfInt(1)
F100      == FOfInt(100)
F1e6      == FOfInt(1000000)
F1e9      == FOfInt(1000000000)
\* a decimal literal n / 10^d as the parser reads it: the nearest float
FDec(n, d) == FDiv(FOfInt(n), FOfInt(10^d))

----------------------------------------------------------------------------
(* The chain, as the RPC node answers: markets, oracles and user accounts. *)
(* It is the same at every fetch.                                          *)

Oracles == {"O1", "O2", "O3", "O4"}

\* get_oracle_id(market.amm.oracle, market.amm.oracle_source) of the perp markets
PerpMarketOracle == [i \in {0, 1} |-> IF i = 0 THEN "O1" ELSE "O4"]

\* get_oracle_id(market.oracle, market.oracle_source) and market.decimals of the spot markets
SpotMarketOracle   == [i \in {0, 1, 2} |-> IF i = 0 THEN "O2" ELSE IF i = 1 THEN "O1" ELSE "O3"]
SpotMarketDecimals == [i \in {0, 1, 2} |-> IF i = 1 THEN 9 ELSE 6]

\* cache["oracle_price_data"][oracle].data.price, precision 1e6
ChainOraclePrice ==
    [o \in Oracles |-> CASE o = "O1" -> 100000000     \* $100
                         [] o = "O2" -> 249           \* $0.000249
                         [] o = "O3" -> 2010000       \* $2.01
                         [] o = "O4" -> 0]

\* what update_cache() of the market subscriber stores
ChainCache == [oracle_price_data |-> ChainOraclePrice]

SpotPos(mi, sb, bt, oo) ==
    [scaled_balance |-> sb, open_bids |-> 0, open_asks |-> 0,
     cumulative_deposits |-> sb \div 2, market_index |-> mi, balance_type |-> bt,
     open_orders |-> oo, padding |-> <<0, 0, 0, 0>>]

PerpPos(mi, base, oo) ==
    [market_index |-> mi, base_asset_amount |-> base, open_orders |-> oo]

\* the addresses the operator may type
\* Addresses are strings, modelled as sequences of characters so that len()
\* and str.strip() are computed.  The authorities that own a UserStats account:
AuthA == <<"A", "A", "A", "A", "A">>
AuthB == <<"B", "B", "B", "B", "B">>
AuthC == <<"C", "C", "C", "C", "C">>
AuthD == <<"D", "D", "D", "D", "D">>
Authorities == {AuthA, AuthB, AuthC, AuthD}
UnknownAuthority == <<"X", "X", "X", "X", "X">>   \* a public key without UserStats
ShortAddress     == <<"a", "b", "c">>
BadAddress       == <<"h", "e", "l", "l", "0">>   \* "0" is no base58 digit
PaddedAuthD      == AuthD \o <<" ">>              \* the same key, typed with a blank

\* the texts the operator may type into the address field
Addresses ==
    Authorities \cup {<<>>, ShortAddress, BadAddress, UnknownAuthority, PaddedAuthD}

\* user_stats.number_of_sub_accounts_created
NumberOfSubAccounts == [a \in Authorities |-> IF a = AuthA THEN 2 ELSE 1]

\* 2.5 in BASE_PRECISION (1e9) is wider than 31 bits
BaseTwoAndAHalf == [s |-> 1, m |-> BMul(BOfInt(25), BOfInt(100000000))]
BaseOne         == [s |-> 1, m |-> BOfInt(1000000000)]

\* the User account update_cache() of the user subscriber fetches, as
\* <<account>>, or <<>> for None (no such account)
ChainUser(a, sub) ==
    CASE a = AuthA /\ sub = 0 ->
            <<[spot_positions |-> <<SpotPos(1, 1500000000, "deposit", 0),
                                    SpotPos(0, 0, "deposit", 0)>>,
               perp_positions |-> <<PerpPos(0, BaseTwoAndAHalf, 0)>>]>>
      [] a = AuthB /\ sub = 0 ->
            <<[spot_positions |-> <<SpotPos(0, 5000499, "borrow", 0),
                                    SpotPos(2, 0, "deposit", 1)>>,
               perp_positions |-> <<PerpPos(0, [s |-> 1, m |-> <<>>], 0)>>]>>
      [] a = AuthC /\ sub = 0 ->
            <<[spot_positions |-> <<SpotPos(1, 49, "deposit", 0),
                                    SpotPos(0, 0, "deposit", 0)>>,
               perp_positions |-> <<PerpPos(1, BaseOne, 0)>>]>>
      [] a = AuthD /\ sub = 0 ->
            <<[spot_positions |-> <<SpotPos(0, 0, "deposit", 0)>>,
               perp_positions |-> <<PerpPos(0, [s |-> 1, m |-> <<>>], 0)>>]>>
      [] OTHER -> <<>>

----------------------------------------------------------------------------
(* st.session_state: a dictionary, here a function from keys to values.   *)
(* A key is a tuple: <<name>>, or <<prefix, id>> for the f-string keys    *)
(* f"price_value_{oracle_key}", f"balance_pct_change_{market_index}", ... *)

KAuthority == <<"current_authority">>
KCache     == <<"clearing_house_cache">>
KUser      == <<"user_and_slot">>
KSub       == <<"subaccount">>
KMode      == <<"adjustment_mode">>
KOriginal  == <<"original_token_amounts">>
PriceValueKey(o)   == <<"price_value_", o>>
PricePctKey(o)     == <<"price_pct_change_", o>>
BalanceValueKey(i) == <<"balance_value_", i>>
BalancePctKey(i)   == <<"balance_pct_change_", i>>

\* key.startswith("price_") or key.startswith("balance_")
StartsWithPriceOrBalance(key) ==
    key[1] \in {"price_value_", "price_pct_change_", "balance_value_", "balance_pct_change_"}

Has(d, k)    == k \in DOMAIN d
Put(d, k, v) == [x \in DOMAIN d \cup {k} |-> IF x = k THEN v ELSE d[x]]
Pop(d, k)    == [x \in DOMAIN d \ {k} |-> d[x]]
Restrict(d, keys) == [x \in DOMAIN d \cap keys |-> d[x]]
EmptyDict    == [x \in {} |-> 0]

(* Objects live in a heap, a function from references to values, so that  *)
(* sharing and copying are distinguished.  RpcCache and RpcUser are the   *)
(* objects the two update_cache() calls create; the Work* references are  *)
(* the copies one render pass makes.                                      *)
RpcCache   == "rpc_cache"
RpcUser    == "rpc_user"
WorkCache  == "work_cache"
WorkCache2 == "work_cache2"
WorkUser   == "work_user"

\* a copy that shares the object instead of duplicating it
DeepCopyAlias(heap, src, new) == [heap |-> heap, ref |-> src]

\* copy.deepcopy(heap[src]): a new object at reference new
DeepCopy(heap, src, new) == [heap |-> Put(heap, new, heap[src]), ref |-> new]

----------------------------------------------------------------------------
(* External SDK (driftpy) accessors, as far as liqcalc depends on them.   *)

\* is_spot_position_available / the perp analogue, negated
IsActiveSpot(pos) == pos.scaled_balance # 0 \/ pos.open_orders # 0
IsActivePerp(pos) == pos.base_asset_amount.m # <<>> \/ pos.open_orders # 0

RECURSIVE SelectActive(_, _)
SelectActive(positions, spot) ==
    IF positions = <<>> THEN <<>>
    ELSE LET h == Head(positions)
             keep == IF spot THEN IsActiveSpot(h) ELSE IsActivePerp(h)
         IN  (IF keep THEN <<h>> ELSE <<>>) \o SelectActive(Tail(positions), spot)

\* user.get_active_spot_positions(), user.get_active_perp_positions()
GetActiveSpotPositions(account) == SelectActive(account.spot_positions, TRUE)
GetActivePerpPositions(account) == SelectActive(account.perp_positions, FALSE)

\* user.get_token_amount(market_index): the signed token amount of the active
\* position on the market, 0 without one; a borrow counts negative.  The
\* cumulative interest is at its initial value, so the amount is the scaled
\* balance (precision 1e9) in the market's own precision.
GetTokenAmount(account, mi) ==
    LET act == SelectSeq(GetActiveSpotPositions(account), LAMBDA q : q.market_index = mi)
    IN  IF act = <<>> THEN 0
        ELSE LET pos == act[1]
                 mag == pos.scaled_balance \div 10^(9 - SpotMarketDecimals[mi])
             IN  IF pos.balance_type = "borrow" THEN -mag ELSE mag

\* user.get_oracle_data_for_perp_market / _for_spot_market: the price record of
\* the market's oracle in the client's current cache
GetOraclePrice(cache, oracle) == cache.oracle_price_data[oracle]

----------------------------------------------------------------------------
(* One render pass: liqcalc(), run by main() of app.py.  The pass is a     *)
(* chain of steps over a context c; a step does nothing once c.status has  *)
(* left "run" (a return, or an exception that main() catches).            *)

MinAddressLength == 5

\* a percentage field that lets the delta fall to -200
PctMinValueLow == FOfInt(-200)

\* number_input(min_value=-100.0) of the two percentage fields
PctMinValue == FOfInt(-100)

NewPass(ss, heap, text, selectbox) ==
    [status        |-> "run",
     ss            |-> ss,            \* st.session_state
     heap          |-> heap,
     text          |-> text,          \* the address field
     selectbox     |-> selectbox,     \* the selectbox as the browser holds it
     rendered      |-> {},            \* keys of the keyed widgets drawn so far
     drawn_select  |-> <<>>,          \* the selectbox drawn: <<[options, index]>>
     fetched_market |-> FALSE,        \* update_cache() of the market subscriber ran
     fetched_user  |-> FALSE,         \* update_cache() of the user subscriber ran
     deleted       |-> {},            \* the keys the loop of lines 93-95 deleted
     stale         |-> {},            \* the price_/balance_ keys left after it
     selected      |-> 0,             \* selected_subaccount
     cache_ref     |-> RpcCache,      \* clearing_house.account_subscriber.cache
     user_ref      |-> RpcUser,       \* user.account_subscriber.user_and_slot
     spot_positions |-> <<>>,
     perp_positions |-> <<>>,
     oracle_markets |-> <<>>,         \* <<[oracle, markets]>> in insertion order
     initial_price |-> EmptyDict,     \* initial_price of each oracle shown
     initial_ui_tokens |-> EmptyDict, \* initial_ui_tokens of each spot position
     price_changes |-> <<>>,          \* <<[oracle, price]>> in dictionary order
     collateral_changes |-> EmptyDict,
     spot_data     |-> <<>>,
     perp_data     |-> <<>>,
     risk_cache    |-> EmptyDict,     \* the snapshot the SDK's risk functions read
     risk_spots    |-> <<>>]

Exit(c, how) == [c EXCEPT !.status = how]

\* str.strip() of the address
RECURSIVE StripLeft(_)
StripLeft(a) == IF a # <<>> /\ Head(a) = " " THEN StripLeft(Tail(a)) ELSE a
RECURSIVE StripRight(_)
StripRight(a) ==
    IF a # <<>> /\ a[Len(a)] = " " THEN StripRight(SubSeq(a, 1, Len(a) - 1)) ELSE a
Strip(a) == StripRight(StripLeft(a))

\* Pubkey.from_string accepts the text
IsPubkey(a) == a \in Authorities \cup {UnknownAuthority}

\* lines 24-32
CheckAddress(c) ==
    IF c.text = <<>> THEN Exit(c, "no_address")
    ELSE IF Len(c.text) < MinAddressLength THEN Exit(c, "warn_invalid_address")
    ELSE c

\* lines 34-41
ResetOnNewAuthority(c) ==
    IF c.status # "run" THEN c
    ELSE IF ~Has(c.ss, KAuthority) \/ c.ss[KAuthority] # c.text
    THEN [c EXCEPT !.ss = Pop(Pop(Pop(Put(c.ss, KAuthority, c.text), KCache), KUser), KSub)]
    ELSE c

\* line 42
ParsePubkey(c) ==
    IF c.status # "run" THEN c
    ELSE IF ~IsPubkey(Strip(c.text)) THEN Exit(c, "error_ValueError")
    ELSE c

\* a pass that fetches the market cache whether or not the session holds one
InitMarketDataAlways(c) ==
    IF c.status # "run" THEN c
    ELSE [c EXCEPT !.heap = Put(c.heap, RpcCache, ChainCache),
                   !.ss = Put(c.ss, KCache, RpcCache),
                   !.fetched_market = TRUE]

\* lines 45-50: the session keeps a reference to the subscriber's cache
InitMarketData(c) ==
    IF c.status # "run" \/ Has(c.ss, KCache) THEN c
    ELSE [c EXCEPT !.heap = Put(c.heap, RpcCache, ChainCache),
                   !.ss = Put(c.ss, KCache, RpcCache),
                   !.fetched_market = TRUE]

\* lines 53-55
CopyMarketData(c) ==
    IF c.status # "run" THEN c
    ELSE LET cp == DeepCopy(c.heap, c.ss[KCache], WorkCache)
         IN  [c EXCEPT !.heap = cp.heap, !.cache_ref = cp.ref]

\* lines 58-67: the UserStats fetch raises for an authority without the account
FetchUserStats(c) ==
    IF c.status # "run" THEN c
    ELSE IF Strip(c.text) \notin Authorities THEN Exit(c, "error_fetching_account")
    ELSE c

\* lines 68-74: the selectbox keeps the operator's choice as long as it is
\* drawn with the same options; drawn anew, it shows the first option
SelectSubaccount(c) ==
    IF c.status # "run" THEN c
    ELSE LET n       == NumberOfSubAccounts[Strip(c.text)]
             options == [i \in 1..n |-> i - 1]
             index   == IF c.selectbox # <<>> /\ c.selectbox[1].options = options
                        THEN c.selectbox[1].index ELSE 1
         IN  [c EXCEPT !.drawn_select = <<[options |-> options, index |-> index]>>,
                       !.selected = options[index]]

RECURSIVE PopAll(_, _)
PopAll(d, keys) ==
    IF keys = {} THEN d
    ELSE LET k == CHOOSE k \in keys : TRUE IN PopAll(Pop(d, k), keys \ {k})

\* a loop that deletes nothing
KeepOverrideKeys(ss) == ss

\* lines 93-95
DeleteOverrideKeys(ss) ==
    PopAll(ss, {k \in DOMAIN ss : StartsWithPriceOrBalance(k)})

\* lines 85-98
InitUser(c) ==
    IF c.status # "run" THEN c
    ELSE IF ~Has(c.ss, KSub) \/ c.ss[KSub] # c.selected
    THEN LET fetched == ChainUser(Strip(c.text), c.selected)
             ss1 == Put(Put(c.ss, KSub, c.selected), KUser, RpcUser)
             c1  == [c EXCEPT !.heap = Put(c.heap, RpcUser, fetched),
                              !.ss = DeleteOverrideKeys(ss1),
                              !.fetched_user = TRUE,
                              !.deleted = DOMAIN ss1 \ DOMAIN DeleteOverrideKeys(ss1),
                              !.stale = {k \in DOMAIN DeleteOverrideKeys(ss1) :
                                            StartsWithPriceOrBalance(k)}]
         IN  IF fetched = <<>> THEN Exit(c1, "info_no_data") ELSE c1
    ELSE c

\* lines 101-103
CopyUser(c) ==
    IF c.status # "run" THEN c
    ELSE LET cp == DeepCopy(c.heap, c.ss[KUser], WorkUser)
         IN  [c EXCEPT !.heap = cp.heap, !.user_ref = cp.ref]

\* lines 105-110: the accessors dereference user_and_slot.data
ActivePositions(c) ==
    IF c.status # "run" THEN c
    ELSE IF c.heap[c.user_ref] = <<>> THEN Exit(c, "error_AttributeError")
    ELSE LET account == c.heap[c.user_ref][1]
             spot == GetActiveSpotPositions(account)
             perp == GetActivePerpPositions(account)
         IN  IF spot = <<>> /\ perp = <<>> THEN Exit(c, "info_no_positions")
             ELSE [c EXCEPT !.spot_positions = spot, !.perp_positions = perp]

\* oracle_markets[oracle_key].append(...), a dictionary in insertion order
AddMarket(om, oracle, type, index) ==
    LET m == [type |-> type, index |-> index]
    IN  IF \E j \in 1..Len(om) : om[j].oracle = oracle
        THEN [j \in 1..Len(om) |->
                 IF om[j].oracle = oracle
                 THEN [om[j] EXCEPT !.markets = Append(@, m)] ELSE om[j]]
        ELSE Append(om, [oracle |-> oracle, markets |-> <<m>>])

RECURSIVE AddPerpMarkets(_, _, _)
AddPerpMarkets(om, positions, i) ==
    IF i > Len(positions) THEN om
    ELSE AddPerpMarkets(AddMarket(om, PerpMarketOracle[positions[i].market_index],
                                  "perp", positions[i].market_index),
                        positions, i + 1)

RECURSIVE AddSpotMarkets(_, _, _)
AddSpotMarkets(om, positions, i) ==
    IF i > Len(positions) THEN om
    ELSE AddSpotMarkets(AddMarket(om, SpotMarketOracle[positions[i].market_index],
                                  "spot", positions[i].market_index),
                        positions, i + 1)

\* lines 112-142
MapOracles(c) ==
    IF c.status # "run" THEN c
    ELSE [c EXCEPT !.oracle_markets =
              AddSpotMarkets(AddPerpMarkets(<<>>, c.perp_positions, 1),
                             c.spot_positions, 1)]

\* lines 145-150: the radio shows its first option unless the session holds a choice
AdjustmentMode(c) ==
    IF c.status # "run" THEN c
    ELSE [c EXCEPT !.ss = IF Has(c.ss, KMode) THEN c.ss ELSE Put(c.ss, KMode, "Value"),
                   !.rendered = @ \cup {KMode}]

\* initial * (1 + pct / 100): lines 175-177 and 205, 232-234 and 267
PctToValue(initial, pct) == FMul(initial, FAdd(F1, FDiv(pct, F100)))

\* ((value - initial) / initial) * 100: lines 192-194, 253-256; initial # 0
ValueToPct(initial, value) == FMul(FDiv(FSub(value, initial), initial), F100)

\* lines 173-179, 230-236: the value field is seeded once
SeedValue(ss, value_key, pct_key, initial) ==
    IF Has(ss, value_key) THEN ss
    ELSE Put(ss, value_key,
             IF Has(ss, pct_key) THEN PctToValue(initial, ss[pct_key]) ELSE initial)

\* lines 190-196, 251-258: the percentage field is seeded once; initial # 0
\* where the value field is converted
SeedPct(ss, value_key, pct_key, initial) ==
    IF Has(ss, pct_key) THEN ss
    ELSE Put(ss, pct_key,
             IF Has(ss, value_key) THEN ValueToPct(initial, ss[value_key]) ELSE FZero)

\* lines 181-186, 238-247: number_input(key=value_key)
ValueField(ss, value_key) ==
    [ss |-> ss, drawn |-> {value_key}, value |-> ss[value_key], raised |-> "none"]

\* lines 198-205, 260-267: number_input(min_value=-100.0, key=pct_key) raises
\* on a session value below its minimum
PctField(ss, pct_key, initial) ==
    IF FLess(ss[pct_key], PctMinValue)
    THEN [ss |-> ss, drawn |-> {}, value |-> FZero,
          raised |-> "error_StreamlitValueBelowMinError"]
    ELSE [ss |-> ss, drawn |-> {pct_key},
          value |-> PctToValue(initial, ss[pct_key]), raised |-> "none"]

\* One adjustable field, in the mode the session holds: lines 172-206 for a
\* price, 229-271 for a balance.  The result: the session, the keys drawn,
\* the simulated value, and the exception raised, if any.
AdjustField(ss, value_key, pct_key, initial) ==
    IF ss[KMode] = "Value"
    THEN ValueField(SeedValue(ss, value_key, pct_key, initial), value_key)
    ELSE IF ~Has(ss, pct_key) /\ Has(ss, value_key) /\ FIsZero(initial)
    THEN [ss |-> ss, drawn |-> {}, value |-> FZero, raised |-> "error_ZeroDivisionError"]
    ELSE PctField(SeedPct(ss, value_key, pct_key, initial), pct_key, initial)

\* lines 186 and 206: price_changes[oracle_key] = {"price": new_price}
PriceChange(c, o, initial_price, field) ==
    IF field.raised # "none"
    THEN [c EXCEPT !.ss = field.ss, !.status = field.raised]
    ELSE [c EXCEPT !.ss = field.ss,
                   !.rendered = @ \cup field.drawn,
                   !.initial_price = Put(@, o, initial_price),
                   !.price_changes = Append(@, [oracle |-> o, price |-> field.value])]

PriceField(c, o, initial_price) ==
    PriceChange(c, o, initial_price,
                AdjustField(c.ss, PriceValueKey(o), PricePctKey(o), initial_price))

\* lines 158-206, one oracle: initial_price = float(oracle_data.price) / 1e6
PriceControl(c, entry) ==
    PriceField(c, entry.oracle,
               FDiv(FOfInt(GetOraclePrice(c.heap[c.cache_ref], entry.oracle)), F1e6))

RECURSIVE PriceControls(_, _)
PriceControls(c, i) ==
    IF c.status # "run" \/ i > Len(c.oracle_markets) THEN c
    ELSE PriceControls(PriceControl(c, c.oracle_markets[i]), i + 1)

\* lines 244-247 and 268-271: collateral_changes[pos.market_index] = {...}
CollateralChange(c, mi, initial_ui_tokens, field) ==
    IF field.raised # "none"
    THEN [c EXCEPT !.ss = field.ss, !.status = field.raised]
    ELSE [c EXCEPT !.ss = field.ss,
                   !.rendered = @ \cup field.drawn,
                   !.initial_ui_tokens = Put(@, mi, initial_ui_tokens),
                   !.collateral_changes =
                        Put(@, mi, [balance |-> field.value,
                                    decimals |-> SpotMarketDecimals[mi]])]

\* lines 220-224: st.session_state.original_token_amounts[pos.market_index] = tokens
SetOriginal(ss, mi, tokens) ==
    Put(ss, KOriginal,
        Put(IF Has(ss, KOriginal) THEN ss[KOriginal] ELSE EmptyDict, mi, tokens))

CollateralField(c, mi, tokens, initial_ui_tokens) ==
    CollateralChange(c, mi, initial_ui_tokens,
                     AdjustField(SetOriginal(c.ss, mi, tokens), BalanceValueKey(mi),
                                 BalancePctKey(mi), initial_ui_tokens))

\* line 219: initial_ui_tokens = tokens / (10**market.decimals)
CollateralTokens(c, mi, tokens) ==
    CollateralField(c, mi, tokens,
                    FDiv(FOfInt(tokens), FOfInt(10^SpotMarketDecimals[mi])))

\* lines 216-271, one spot position
CollateralControl(c, pos) ==
    CollateralTokens(c, pos.market_index,
                     GetTokenAmount(c.heap[c.user_ref][1], pos.market_index))

RECURSIVE CollateralControls(_, _)
CollateralControls(c, i) ==
    IF c.status # "run" \/ i > Len(c.spot_positions) THEN c
    ELSE CollateralControls(CollateralControl(c, c.spot_positions[i]), i + 1)

\* lines 278-282: oracle_data.data.price = int(change_info["price"] * 1e6)
RECURSIVE SetPrices(_, _, _)
SetPrices(oracle_price_data, changes, i) ==
    IF i > Len(changes) THEN oracle_price_data
    ELSE LET o == changes[i].oracle
         IN  SetPrices(IF o \in DOMAIN oracle_price_data
                       THEN [oracle_price_data EXCEPT
                                ![o] = FToInt(FMul(changes[i].price, F1e6))]
                       ELSE oracle_price_data,
                       changes, i + 1)

\* lines 273-287
ApplyPriceUpdates(c) ==
    IF c.status # "run" \/ c.price_changes = <<>> THEN c
    ELSE LET cp    == DeepCopy(c.heap, c.cache_ref, WorkCache2)
             cache == cp.heap[cp.ref]
             new   == [cache EXCEPT !.oracle_price_data = SetPrices(@, c.price_changes, 1)]
         IN  [c EXCEPT !.heap = Put(cp.heap, cp.ref, new), !.cache_ref = cp.ref]

\* lines 301-303: new_tokens = int(balance * 10 ** decimals)
NewTokens(balance, decimals) == FToInt(FMul(balance, FOfInt(10^decimals)))

\* lines 305-309
RescaledBalance(scaled_balance, balance, decimals, original_tokens) ==
    IF original_tokens # 0
    THEN FToInt(FMul(FOfInt(scaled_balance),
                     FDiv(FOfInt(NewTokens(balance, decimals)),
                          FOfInt(original_tokens))))
    ELSE 0

\* lines 293-324, one position of the user account
NewPosition(pos, collateral_changes, original_token_amounts) ==
    IF pos.market_index \in DOMAIN collateral_changes
    THEN LET change_info == collateral_changes[pos.market_index]
         IN  [scaled_balance |-> RescaledBalance(pos.scaled_balance, change_info.balance,
                                                 change_info.decimals,
                                                 original_token_amounts[pos.market_index]),
              open_bids |-> pos.open_bids,
              open_asks |-> pos.open_asks,
              cumulative_deposits |-> pos.cumulative_deposits,
              market_index |-> pos.market_index,
              balance_type |-> pos.balance_type,
              open_orders |-> pos.open_orders,
              padding |-> pos.padding]
    ELSE pos

RECURSIVE NewPositions(_, _, _, _)
NewPositions(positions, collateral_changes, originals, i) ==
    IF i > Len(positions) THEN <<>>
    ELSE <<NewPosition(positions[i], collateral_changes, originals)>>
         \o NewPositions(positions, collateral_changes, originals, i + 1)

\* lines 289-327
ApplyCollateralUpdates(c) ==
    IF c.status # "run" \/ DOMAIN c.collateral_changes = {} THEN c
    ELSE LET account == c.heap[c.user_ref][1]
             new == NewPositions(account.spot_positions, c.collateral_changes,
                                 c.ss[KOriginal], 1)
         IN  [c EXCEPT !.heap = Put(c.heap, c.user_ref,
                                    <<[account EXCEPT !.spot_positions = new]>>)]

\* Series.round(2) of a float column, lines 389-390 and 413-414: the column
\* times 100, rounded to the nearest integer, over 100
Round2(x) == FDiv(FRint(FMul(x, F100)), F100)

\* lines 337-358 and 388-390, one row
SpotValues(mi, balance, oracle_price) ==
    [market_index |-> mi, Balance |-> balance,
     NetValue |-> Round2(FMul(balance, oracle_price)), Price |-> Round2(oracle_price)]

SpotRow(c, pos) ==
    SpotValues(pos.market_index,
               FDiv(FOfInt(GetTokenAmount(c.heap[c.user_ref][1], pos.market_index)),
                    FOfInt(10^SpotMarketDecimals[pos.market_index])),
               FDiv(FOfInt(GetOraclePrice(c.heap[c.cache_ref],
                                          SpotMarketOracle[pos.market_index])), F1e6))

\* lines 361-380 and 412-414, one row
PerpValues(mi, base_size, oracle_price) ==
    [market_index |-> mi, BaseSize |-> base_size,
     Notional |-> Round2(FMul(base_size, oracle_price)), Price |-> Round2(oracle_price)]

PerpRow(c, pos) ==
    PerpValues(pos.market_index,
               FDiv(FOfWide(pos.base_asset_amount), F1e9),
               FDiv(FOfInt(GetOraclePrice(c.heap[c.cache_ref],
                                          PerpMarketOracle[pos.market_index])), F1e6))

\* lines 329-436.  The liquidation prices and the health are the SDK's
\* functions of the client's cache and the user's account at this point;
\* the pass records those arguments.
Results(c) ==
    IF c.status # "run" THEN c
    ELSE [c EXCEPT
            !.spot_data = [j \in 1..Len(c.spot_positions) |-> SpotRow(c, c.spot_positions[j])],
            !.perp_data = [j \in 1..Len(c.perp_positions) |-> PerpRow(c, c.perp_positions[j])],
            !.risk_cache = c.heap[c.cache_ref].oracle_price_data,
            !.risk_spots = c.heap[c.user_ref][1].spot_positions,
            !.status = "done"]

\* liqcalc(): lines 21-436
Render(c) ==
    Results(ApplyCollateralUpdates(ApplyPriceUpdates(
        CollateralControls(PriceControls(AdjustmentMode(MapOracles(
            ActivePositions(CopyUser(InitUser(SelectSubaccount(FetchUserStats(
                CopyMarketData(InitMarketData(ParsePubkey(ResetOnNewAuthority(
                    CheckAddress(c)))))))))))), 1), 1))))

\* What the session holds once the script has finished: the state of a keyed
\* widget that the pass did not draw is dropped; a key the script only
\* assigned stays.
Finish(c, before) == Restrict(c.ss, DOMAIN c.ss \ (before \ c.rendered))

\* The client and the user object of a pass are dropped with it: the heap
\* keeps what the session refers to.
Retained(c, ss) ==
    Restrict(c.heap, {ss[k] : k \in {KCache, KUser} \cap DOMAIN ss})

\* What a pass shows, and the arguments of the SDK's risk functions
Outputs(c) ==
    [status |-> c.status, selected |-> c.selected,
     fetched_market |-> c.fetched_market, fetched_user |-> c.fetched_user,
     deleted |-> c.deleted, stale |-> c.stale,
     initial_price |-> c.initial_price, initial_ui_tokens |-> c.initial_ui_tokens,
     price_changes |-> c.price_changes, collateral_changes |-> c.collateral_changes,
     spot_data |-> c.spot_data, perp_data |-> c.perp_data,
     risk_cache |-> c.risk_cache, risk_spots |-> c.risk_spots]

----------------------------------------------------------------------------
(* The session: every interaction of the operator re-runs the script.     *)

\* number-field edits while the fields of a target stay on the page
MaxEdits == 2

\* what the operator types into the fields
PriceInputs   == {FOfInt(80), FDec(201, 2)}
BalanceInputs == {FOfInt(2), FDec(27, 3)}
PctCandidates == {FOfInt(-150), FOfInt(-100), FOfInt(20)}
\* the percentage fields refuse what lies below min_value
PctInputs     == {p \in PctCandidates : ~FLess(p, PctMinValue)}

InputsOf(key) ==
    IF key[1] = "price_value_" THEN PriceInputs
    ELSE IF key[1] = "balance_value_" THEN BalanceInputs
    ELSE PctInputs

VARIABLES session_state, heap, authority_address, selectbox, rendered, edits, out
vars == <<session_state, heap, authority_address, selectbox, rendered, edits, out>>

\* What a finished run leaves to the next one
Commit(c, text, edited) ==
    /\ session_state' = Finish(c, rendered)
    /\ heap' = Retained(c, Finish(c, rendered))
    /\ authority_address' = text
    /\ selectbox' = c.drawn_select
    /\ rendered' = c.rendered
    /\ edits' = IF c.fetched_user \/ c.rendered \subseteq {KMode} THEN 0 ELSE edits + edited
    /\ out' = Outputs(c)

\* app.py main(), lines 27-47: one run of the script on what the browser holds
Run(ss, text, box, edited) ==
    Commit(Render(NewPass(ss, heap, text, box)), text, edited)

\* the first run, on an empty page
Init ==
    /\ session_state = EmptyDict
    /\ heap = EmptyDict
    /\ authority_address = <<>>
    /\ selectbox = <<>>
    /\ rendered = {}
    /\ edits = 0
    /\ out = Outputs(Render(NewPass(EmptyDict, EmptyDict, <<>>, <<>>)))

\* st.text_input, line 23
EnterAddress ==
    \E a \in Addresses \cup {<<>>} :
        /\ a # authority_address
        /\ Run(session_state, a, selectbox, 0)

\* st.selectbox, lines 69-74
ChooseSubaccount ==
    /\ selectbox # <<>>
    /\ \E i \in 1..Len(selectbox[1].options) :
        /\ i # selectbox[1].index
        /\ Run(session_state, authority_address,
               <<[selectbox[1] EXCEPT !.index = i]>>, 0)

\* st.radio, lines 145-150
ChooseMode ==
    /\ KMode \in rendered
    /\ \E m \in {"Value", "Percentage"} :
        /\ m # session_state[KMode]
        /\ Run(Put(session_state, KMode, m), authority_address, selectbox, 0)

\* number_input of a price or a balance, lines 180-184, 198-203, 238-243, 260-265
EditNumber ==
    /\ edits < MaxEdits
    /\ \E key \in rendered \ {KMode} :
       \E v \in InputsOf(key) :
        /\ v # session_state[key]
        /\ Run(Put(session_state, key, v), authority_address, selectbox, 1)

\* the script runs again on unchanged inputs
Rerun == Run(session_state, authority_address, selectbox, 0)

Next == EnterAddress \/ ChooseSubaccount \/ ChooseMode \/ EditNumber \/ Rerun

Spec == Init /\ [][Next]_vars

----------------------------------------------------------------------------
(* Properties.                                                             *)

\* every override the pass applied is the value fetched for its target
DefaultOverrides(o) ==
    /\ \A i \in 1..Len(o.price_changes) :
          o.price_changes[i].price = o.initial_price[o.price_changes[i].oracle]
    /\ \A mi \in DOMAIN o.collateral_changes :
          o.collateral_changes[mi].balance = o.initial_ui_tokens[mi]

\* the tables of a pass and the snapshot its risk functions read
Shown(o) == <<o.spot_data, o.perp_data, o.risk_cache, o.risk_spots>>

\* the pass of a new session on the address and subaccount now on the page
FreshOutputs ==
    Outputs(Render(NewPass(EmptyDict, EmptyDict, authority_address, selectbox)))

\* the pass got as far as the user snapshot (line 85)
ReachedUser(o) ==
    o.status \notin {"no_address", "warn_invalid_address", "error_ValueError",
                     "error_fetching_account"}

\* C1: whatever overrides the passes applied, in either mode, the market
\* cache and the user snapshot the session stores are the values the RPC
\* node returned for the stored target; and a finished pass whose overrides
\* are all at their fetched values shows what the first pass of a new
\* session on the same target shows.
C1_SnapshotsPristine ==
    /\ Has(session_state, KCache) => heap[session_state[KCache]] = ChainCache
    /\ Has(session_state, KUser) =>
          heap[session_state[KUser]]
              = ChainUser(Strip(session_state[KAuthority]), session_state[KSub])
    /\ (out.status = "done" /\ DefaultOverrides(out)) => Shown(out) = Shown(FreshOutputs)

\* a finished pass applied an override that changed the working snapshot
C1_Witness ==
    /\ out.status = "done"
    /\ ~DefaultOverrides(out)
    /\ out.risk_cache # ChainOraclePrice
    /\ out.risk_spots # heap[session_state[KUser]][1].spot_positions
    /\ heap[session_state[KCache]] = ChainCache

\* the address or the subaccount of the pass differs from the stored target
TargetChanges ==
    \/ ~Has(session_state, KAuthority) \/ ~Has(session_state, KSub)
    \/ session_state[KAuthority] # authority_address'
    \/ session_state[KSub] # out'.selected

\* C2: in a pass whose address or subaccount differs from the target of the
\* stored user snapshot, the snapshot is fetched anew and no key starting
\* with price_ or balance_ is left when the widgets are drawn, so every
\* override the pass applies is the value fetched for the new target.
C2_OverridesCleared ==
    [][(TargetChanges /\ ReachedUser(out'))
          => (out'.fetched_user /\ out'.stale = {} /\ DefaultOverrides(out'))]_vars

\* the keys of the previous target were deleted and the new target was drawn
C2_Witness ==
    /\ out.status = "done"
    /\ out.fetched_user
    /\ out.deleted # {}

\* the operator moved the price field of entry i away from the fetched price
Overridden(o, i) ==
    o.price_changes[i].price # o.initial_price[o.price_changes[i].oracle]

\* the price row i of the pass leaves oracle o2 at its fetched price
NotOverridden(o, o2) ==
    \A i \in 1..Len(o.price_changes) :
        o.price_changes[i].oracle = o2 => ~Overridden(o, i)

\* C3: in a finished pass, an override p of the price of oracle O makes
\* every spot and perp row on O show the price p and the value size x p
\* (both to two decimals, as the tables round them),
\* makes the snapshot of the risk functions hold p for O, and leaves the
\* price record of every oracle that is not overridden at its fetched value.
C3_PriceOverride ==
    out.status = "done" =>
        \A i \in 1..Len(out.price_changes) :
            Overridden(out, i) =>
                /\ \A j \in 1..Len(out.spot_data) :
                      SpotMarketOracle[out.spot_data[j].market_index]
                          = out.price_changes[i].oracle
                      => /\ out.spot_data[j].Price = Round2(out.price_changes[i].price)
                         /\ out.spot_data[j].NetValue
                               = Round2(FMul(out.spot_data[j].Balance,
                                             out.price_changes[i].price))
                /\ \A j \in 1..Len(out.perp_data) :
                      PerpMarketOracle[out.perp_data[j].market_index]
                          = out.price_changes[i].oracle
                      => /\ out.perp_data[j].Price = Round2(out.price_changes[i].price)
                         /\ out.perp_data[j].Notional
                               = Round2(FMul(out.perp_data[j].BaseSize,
                                             out.price_changes[i].price))
                /\ FDiv(FOfInt(out.risk_cache[out.price_changes[i].oracle]), F1e6)
                      = out.price_changes[i].price
                /\ \A o2 \in Oracles \ {out.price_changes[i].oracle} :
                      NotOverridden(out, o2) => out.risk_cache[o2] = ChainOraclePrice[o2]

Abs(n) == IF n < 0 THEN -n ELSE n
Sgn(n) == IF n < 0 THEN -1 ELSE IF n > 0 THEN 1 ELSE 0

\* r is scaled_balance * new_tokens / original_tokens, where a quotient that
\* is no integer may be rounded either way: |r * orig - sb * new| < |orig|
IsRescaled(r, sb, new, orig) ==
    LET a == BMul(BOfInt(Abs(r)), BOfInt(Abs(orig)))
        b == BMul(BOfInt(Abs(sb)), BOfInt(Abs(new)))
    IN  /\ (a # <<>> /\ b # <<>>) => Sgn(r) * Sgn(orig) = Sgn(sb) * Sgn(new)
        /\ BCmp(IF BCmp(a, b) >= 0 THEN BSub(a, b) ELSE BSub(b, a),
                BOfInt(Abs(orig))) < 0

\* the spot positions of the stored user snapshot
FetchedSpots == heap[session_state[KUser]][1].spot_positions

\* C4: in a finished pass, the working position of every spot market with a
\* collateral override holds scaled_balance * new_tokens / original_tokens,
\* and 0 where original_tokens is 0; its other fields, and every position on
\* a market without an override, are those of the fetched snapshot.
C4_CollateralRescale ==
    out.status = "done" =>
        \A j \in 1..Len(FetchedSpots) :
            LET pos == FetchedSpots[j]
                new == out.risk_spots[j]
                mi  == pos.market_index
                original_tokens == session_state[KOriginal][mi]
            IN  IF mi \in DOMAIN out.collateral_changes
                THEN /\ [new EXCEPT !.scaled_balance = pos.scaled_balance] = pos
                     /\ IF original_tokens = 0 THEN new.scaled_balance = 0
                        ELSE IsRescaled(new.scaled_balance, pos.scaled_balance,
                                        NewTokens(out.collateral_changes[mi].balance,
                                                  out.collateral_changes[mi].decimals),
                                        original_tokens)
                ELSE new = pos

\* the operator switched the adjustment mode between two finished passes
ModeSwitched ==
    /\ Has(session_state, KMode) /\ Has(session_state', KMode)
    /\ session_state'[KMode] # session_state[KMode]
    /\ out.status = "done" /\ out'.status = "done"

\* C5: when the operator switches the adjustment mode and both passes
\* finish, the pass after the switch applies the oracle prices and the
\* scaled balances that the pass before it applied.
C5_ToggleKeepsValues ==
    [][ModeSwitched
          => (out'.risk_cache = out.risk_cache /\ out'.risk_spots = out.risk_spots)]_vars

NonNegative(f) == f.s = 1

\* C6 as stated: in Percentage mode no simulated price and no simulated
\* balance that a finished pass applies is negative.
C6_NeverNegative ==
    (out.status = "done" /\ session_state[KMode] = "Percentage") =>
        /\ \A i \in 1..Len(out.price_changes) : NonNegative(out.price_changes[i].price)
        /\ \A mi \in DOMAIN out.collateral_changes :
              NonNegative(out.collateral_changes[mi].balance)

\* C6: in Percentage mode every delta a finished pass applies is at least
\* -100, and the simulated price or balance is not negative wherever the
\* fetched one is not negative.
C6_NotBelowZeroFromNonNegative ==
    (out.status = "done" /\ session_state[KMode] = "Percentage") =>
        /\ \A i \in 1..Len(out.price_changes) :
              LET o == out.price_changes[i].oracle
              IN  /\ ~FLess(session_state[PricePctKey(o)], FOfInt(-100))
                  /\ NonNegative(out.initial_price[o])
                        => NonNegative(out.price_changes[i].price)
        /\ \A mi \in DOMAIN out.collateral_changes :
              /\ ~FLess(session_state[BalancePctKey(mi)], FOfInt(-100))
              /\ NonNegative(out.initial_ui_tokens[mi])
                    => NonNegative(out.collateral_changes[mi].balance)

\* a finished pass applied a delta of -100 to a price and to a balance
C6_Witness ==
    /\ out.status = "done" /\ session_state[KMode] = "Percentage"
    /\ \E i \in 1..Len(out.price_changes) :
          /\ session_state[PricePctKey(out.price_changes[i].oracle)] = FOfInt(-100)
          /\ out.price_changes[i].price = FZero
          /\ out.initial_price[out.price_changes[i].oracle] # FZero

\* the pass got as far as the market cache (line 45)
ReachedCache(o) ==
    o.status \notin {"no_address", "warn_invalid_address", "error_ValueError"}

\* C7 as stated: a pair is fetched once.  Subaccount 1 can be chosen only on
\* a page that drew subaccount 0 of the same address first, so a pass that
\* goes back from subaccount 1 to subaccount 0 shows a pair fetched before.
C7_OncePerPair ==
    [][(/\ Has(session_state, KSub) /\ session_state[KSub] = 1
        /\ authority_address' = session_state[KAuthority]
        /\ ReachedUser(out') /\ out'.selected = 0)
          => ~out'.fetched_user]_vars

\* C7: a pass fetches the market cache exactly when it gets to line 45 and
\* the session holds none for the address as typed, and the user snapshot
\* exactly when it gets to line 85 and the address or the subaccount differs
\* from the stored target; so a pass on the stored pair fetches nothing, and
\* a finished pass leaves both, as fetched for its pair, in the session.
C7_FetchOnChange ==
    [][/\ out'.fetched_market
            = (ReachedCache(out')
               /\ (~Has(session_state, KCache)
                   \/ session_state[KAuthority] # authority_address'))
       /\ out'.fetched_user = (ReachedUser(out') /\ TargetChanges)
       /\ out'.status = "done"
            => /\ heap'[session_state'[KCache]] = ChainCache
               /\ heap'[session_state'[KUser]]
                     = ChainUser(Strip(authority_address'), out'.selected)]_vars

\* a finished pass fetched the user snapshot for a new subaccount and took
\* the market cache from the session
C7_Witness ==
    /\ out.status = "done"
    /\ out.fetched_user /\ ~out.fetched_market

\* C8: a finished pass whose overrides are all at their fetched values
\* leaves every oracle price and every spot position of the working snapshot
\* as fetched, and shows size x fetched price, to two decimals, as the
\* notional.
C8_DefaultsAreIdentity ==
    (out.status = "done" /\ DefaultOverrides(out)) =>
        /\ out.risk_cache = ChainOraclePrice
        /\ out.risk_spots = FetchedSpots
        /\ \A j \in 1..Len(out.perp_data) :
              out.perp_data[j].Notional
                  = Round2(FMul(out.perp_data[j].BaseSize,
                                FDiv(FOfInt(ChainOraclePrice[
                                    PerpMarketOracle[out.perp_data[j].market_index]]), F1e6)))

\* C9: a pass on a subaccount whose stored snapshot is empty ends with the
\* "No data found for this subaccount" message.
C9_NoDataEveryPass ==
    (ReachedUser(out) /\ Has(session_state, KUser)
        /\ heap[session_state[KUser]] = <<>>)
        => out.status = "info_no_data"

\* C10: no pass ends in a division by zero.
C10_NoDivisionByZero == out.status # "error_ZeroDivisionError"

====
